---- MODULE Spec2Model ----
(***************************************************************************)
(* Model of the purplehoge portfolio site: the GitHub API client           *)
(* (js/github-api.js, second revision in the file), the utility helpers    *)
(* (safeQuerySelector*, debounce, throttle, LoadingManager) and the        *)
(* PortfolioApp renderer (js/main.js).                                     *)
(*                                                                         *)
(* Strings are TLA+ strings; Len, SubSeq and \o work on them, so trim,     *)
(* toLowerCase, includes and endsWith are computed character by character. *)
(* Time is Date.now() in milliseconds.                                     *)
(***************************************************************************)
EXTENDS Integers, Sequences, FiniteSets, TLC

\* ------------------------------------------------------------------------
\* Bounds of the model
\* ------------------------------------------------------------------------
MaxCalls == 3
MaxTicks == 2
MaxEvents == 3
MaxCategories == 2
MaxRepos == 3
MaxProjects == 3

\* ------------------------------------------------------------------------
\* Program constants
\* ------------------------------------------------------------------------
USERNAME == "purplehoge"
CACHE_DURATION == 3600000
RATE_LIMIT_DELAY == 1000
EXCLUDED_REPOS == {"purplehoge", "README"}
MAX_TECHNOLOGIES == 6

\* JavaScript null / undefined
Null == "<null>"

\* A call that has not returned yet
Pending == "<pending>"

\* ------------------------------------------------------------------------
\* JavaScript string primitives
\* ------------------------------------------------------------------------
UpperChars == "ABCDEFGHIJKLMNOPQRSTUVWXYZ"
LowerChars == "abcdefghijklmnopqrstuvwxyz"

CharAt(s, i) == SubSeq(s, i, i)

ToLowerChar(ch) ==
    IF \E i \in 1..Len(UpperChars) : CharAt(UpperChars, i) = ch
    THEN CharAt(LowerChars, CHOOSE i \in 1..Len(UpperChars) : CharAt(UpperChars, i) = ch)
    ELSE ch

ToUpperChar(ch) ==
    IF \E i \in 1..Len(LowerChars) : CharAt(LowerChars, i) = ch
    THEN CharAt(UpperChars, CHOOSE i \in 1..Len(LowerChars) : CharAt(LowerChars, i) = ch)
    ELSE ch

RECURSIVE toLowerCase(_)
toLowerCase(s) ==
    IF Len(s) = 0 THEN ""
    ELSE ToLowerChar(CharAt(s, 1)) \o toLowerCase(SubSeq(s, 2, Len(s)))

includes(s, k) ==
    \E i \in 1..(Len(s) - Len(k) + 1) : SubSeq(s, i, i + Len(k) - 1) = k

startsWith(s, k) ==
    Len(s) >= Len(k) /\ SubSeq(s, 1, Len(k)) = k

endsWith(s, k) ==
    Len(s) >= Len(k) /\ SubSeq(s, Len(s) - Len(k) + 1, Len(s)) = k

IsSpace(ch) == ch \in {" ", "\t", "\n", "\r"}

RECURSIVE trimStart(_)
trimStart(s) ==
    IF Len(s) > 0 /\ IsSpace(CharAt(s, 1)) THEN trimStart(SubSeq(s, 2, Len(s))) ELSE s

RECURSIVE trimEnd(_)
trimEnd(s) ==
    IF Len(s) > 0 /\ IsSpace(CharAt(s, Len(s))) THEN trimEnd(SubSeq(s, 1, Len(s) - 1)) ELSE s

\* A trim that strips the leading white space only
trimLeadingOnly(s) == trimStart(s)

trim(s) == trimEnd(trimStart(s))

\* Truthiness of a string-or-null value: null and "" are falsy.
Truthy(v) == v # Null /\ v # ""

\* Index of the first position of s holding one of the characters in stops,
\* or Len(s) + 1 when there is none.
FirstOf(s, stops) ==
    IF \E i \in 1..Len(s) : CharAt(s, i) \in stops
    THEN CHOOSE i \in 1..Len(s) :
            /\ CharAt(s, i) \in stops
            /\ \A j \in 1..(i - 1) : CharAt(s, j) \notin stops
    ELSE Len(s) + 1

RECURSIVE SkipSlashes(_)
SkipSlashes(s) ==
    IF Len(s) > 0 /\ CharAt(s, 1) = "/" THEN SkipSlashes(SubSeq(s, 2, Len(s))) ELSE s

IsLetter(ch) ==
    \E i \in 1..Len(LowerChars) : CharAt(LowerChars, i) = ToLowerChar(ch)

\* new URL(url): the WHATWG parser, restricted to scheme, authority and
\* hostname.  ok = FALSE stands for the TypeError the constructor throws.
SpecialSchemes == {"http", "https", "ftp", "ws", "wss"}
InvalidUrl == [ok |-> FALSE, protocol |-> "", hostname |-> ""]

ParseUrl(url) ==
    LET colon == FirstOf(url, {":"})
        scheme == toLowerCase(SubSeq(url, 1, colon - 1))
        rest == SubSeq(url, colon + 1, Len(url))
        special == scheme \in SpecialSchemes
        auth == IF special THEN SkipSlashes(rest)
                ELSE IF startsWith(rest, "//") THEN SubSeq(rest, 3, Len(rest))
                ELSE ""
        hostEnd == FirstOf(auth, {"/", "?", "#", ":"})
        host == toLowerCase(SubSeq(auth, 1, hostEnd - 1))
    IN  IF \/ colon > Len(url)
           \/ colon = 1
           \/ \E i \in 1..(colon - 1) : ~IsLetter(CharAt(url, i))
        THEN InvalidUrl
        ELSE IF (special /\ host = "") \/ includes(host, " ")
        THEN InvalidUrl
        ELSE [ok |-> TRUE, protocol |-> scheme \o ":", hostname |-> host]

\* ------------------------------------------------------------------------
\* Sequence helpers
\* ------------------------------------------------------------------------
SeqContains(seq, x) == \E i \in 1..Len(seq) : seq[i] = x

RECURSIVE Dedupe(_)
\* [...new Set(arr)]: first occurrences, in insertion order
Dedupe(seq) ==
    IF Len(seq) = 0 THEN <<>>
    ELSE LET init == Dedupe(SubSeq(seq, 1, Len(seq) - 1))
             last == seq[Len(seq)]
         IN  IF SeqContains(init, last) THEN init ELSE Append(init, last)

\* ------------------------------------------------------------------------
\* GitHubApiClient: pure helpers (js/github-api.js)
\* A raw repository is a record
\*   [name, fork, description, homepage, language, topics, stargazers_count]
\* where description, homepage and language may be Null.
\* ------------------------------------------------------------------------
techKeywords ==
    {"javascript", "typescript", "python", "java", "html", "css",
     "react", "vue", "angular", "node", "express", "flask", "django",
     "git", "docker", "mongodb", "mysql", "postgresql",
     "frontend", "backend", "api", "rest"}

isTechnologyTopic(topic) ==
    \E keyword \in techKeywords : includes(toLowerCase(topic), keyword)

nameMap(key) ==
    CASE key = "javascript" -> "JavaScript"
      [] key = "typescript" -> "TypeScript"
      [] key = "python" -> "Python"
      [] key = "html" -> "HTML"
      [] key = "css" -> "CSS"
      [] key = "react" -> "React"
      [] key = "vue" -> "Vue.js"
      [] key = "node" -> "Node.js"
      [] OTHER -> Null

normalizeTechnologyName(tech) ==
    LET normalized == nameMap(toLowerCase(tech))
    IN  IF normalized # Null THEN normalized
        ELSE ToUpperChar(CharAt(tech, 1)) \o SubSeq(tech, 2, Len(tech))

RECURSIVE FilterTechTopics(_)
FilterTechTopics(topics) ==
    IF Len(topics) = 0 THEN <<>>
    ELSE IF isTechnologyTopic(topics[1])
         THEN <<topics[1]>> \o FilterTechTopics(Tail(topics))
         ELSE FilterTechTopics(Tail(topics))

extractTechnologies(repo) ==
    LET lang == IF Truthy(repo.language) THEN <<repo.language>> ELSE <<>>
        technologies == lang \o FilterTechTopics(repo.topics)
        unique == Dedupe(technologies)
        mapped == [i \in 1..Len(unique) |-> normalizeTechnologyName(unique[i])]
    IN  SubSeq(mapped, 1, IF Len(mapped) < MAX_TECHNOLOGIES THEN Len(mapped)
                              ELSE MAX_TECHNOLOGIES)

vercelDomains == {"vercel.app", "vercel.com", "now.sh"}

deployDomains ==
    {"netlify.app", "netlify.com", "herokuapp.com", "github.io",
     "pages.dev", "railway.app", "surge.sh"}

\* urlObj.hostname.endsWith(domain)
HostMatches(hostname, domain) == endsWith(hostname, domain)

isVercelUrl(url) ==
    LET urlObj == ParseUrl(url)
    IN  IF ~urlObj.ok THEN FALSE
        ELSE \E domain \in vercelDomains : HostMatches(urlObj.hostname, domain)

isValidDeployUrl(url) ==
    LET urlObj == ParseUrl(url)
    IN  IF ~urlObj.ok THEN FALSE
        ELSE IF urlObj.protocol \notin {"http:", "https:"} THEN FALSE
        ELSE \E domain \in deployDomains : HostMatches(urlObj.hostname, domain)

webKeywords ==
    {"website", "site", "page", "portfolio", "blog", "docs",
     "documentation", "demo", "landing", "web"}

frontendTech == {"html", "css", "javascript", "react", "vue"}

likelyHasGitHubPages(repo) ==
    LET repoName == toLowerCase(repo.name)
        description == toLowerCase(IF Truthy(repo.description) THEN repo.description ELSE "")
        topics == repo.topics
        hasWebKeyword ==
            \/ \E keyword \in webKeywords : includes(repoName, keyword)
            \/ \E keyword \in webKeywords : includes(description, keyword)
            \/ \E i \in 1..Len(topics) : toLowerCase(topics[i]) \in webKeywords
        hasFrontendTech ==
            \/ (repo.language # Null /\ toLowerCase(repo.language) \in frontendTech)
            \/ \E i \in 1..Len(topics) : toLowerCase(topics[i]) \in frontendTech
        hasGitHubPagesTopic == SeqContains(topics, "github-pages")
    IN  hasWebKeyword \/ hasFrontendTech \/ hasGitHubPagesTopic

getGitHubPagesUrl(repo) ==
    IF repo.name = USERNAME \o ".github.io"
    THEN "https://" \o USERNAME \o ".github.io/"
    ELSE IF likelyHasGitHubPages(repo)
    THEN "https://" \o USERNAME \o ".github.io/" \o repo.name \o "/"
    ELSE Null

getDemoUrl(repo) ==
    LET homepage == IF Truthy(repo.homepage) THEN trim(repo.homepage) ELSE Null
        githubPagesUrl == getGitHubPagesUrl(repo)
    IN  IF Truthy(repo.homepage) /\ isVercelUrl(homepage) THEN homepage
        ELSE IF Truthy(repo.homepage) /\ isValidDeployUrl(homepage) THEN homepage
        ELSE IF Truthy(githubPagesUrl) THEN githubPagesUrl
        ELSE IF Truthy(repo.homepage) /\ Truthy(trim(repo.homepage)) THEN trim(repo.homepage)
        ELSE Null

isFeaturedRepo(repo) ==
    LET hasStars == repo.stargazers_count > 0
        hasFeaturedTopic == SeqContains(repo.topics, "featured")
        isPortfolio == includes(toLowerCase(repo.name), "portfolio")
    IN  hasStars \/ hasFeaturedTopic \/ isPortfolio

\* The summary keeps the fields the rendering and the ordering read; image
\* (always null), status (always 'completed'), sourceUrl and the two dates are
\* copied through unchanged by the code and are left out.
Summarize(repo) ==
    [id |-> "github-" \o repo.name,
     title |-> repo.name,
     description |-> IF Truthy(repo.description) THEN repo.description ELSE "no-description",
     technologies |-> extractTechnologies(repo),
     demoUrl |-> getDemoUrl(repo),
     featured |-> isFeaturedRepo(repo),
     stars |-> repo.stargazers_count]

\* A comparator that looks at the star counts only
CompareSummariesStarsOnly(a, b) == b.stars - a.stars

\* The comparator of the sort in processRepositories
CompareSummaries(a, b) ==
    IF a.featured /\ ~b.featured THEN -1
    ELSE IF ~a.featured /\ b.featured THEN 1
    ELSE b.stars - a.stars

\* Array.prototype.sort is stable: x goes after every element it does not
\* precede.
RECURSIVE InsertSorted(_, _)
InsertSorted(sorted, x) ==
    IF Len(sorted) = 0 THEN <<x>>
    ELSE IF CompareSummaries(x, sorted[1]) < 0 THEN <<x>> \o sorted
    ELSE <<sorted[1]>> \o InsertSorted(Tail(sorted), x)

RECURSIVE SortSummaries(_)
SortSummaries(list) ==
    IF Len(list) = 0 THEN <<>>
    ELSE InsertSorted(SortSummaries(SubSeq(list, 1, Len(list) - 1)), list[Len(list)])

\* A filter that drops the excluded names and keeps the forks
RECURSIVE FilterReposKeepForks(_)
FilterReposKeepForks(repos) ==
    IF Len(repos) = 0 THEN <<>>
    ELSE IF repos[1].name \notin EXCLUDED_REPOS
         THEN <<repos[1]>> \o FilterReposKeepForks(Tail(repos))
         ELSE FilterReposKeepForks(Tail(repos))

\* The two filters of processRepositories
RECURSIVE FilterRepos(_)
FilterRepos(repos) ==
    IF Len(repos) = 0 THEN <<>>
    ELSE IF repos[1].name \notin EXCLUDED_REPOS /\ ~repos[1].fork
         THEN <<repos[1]>> \o FilterRepos(Tail(repos))
         ELSE FilterRepos(Tail(repos))

processRepositories(repos) ==
    LET kept == FilterRepos(repos)
    IN  SortSummaries([i \in 1..Len(kept) |-> Summarize(kept[i])])

\* The first revision's fallback: one static project instead of none
FallbackPortfolio ==
    [id |-> "fallback-portfolio", title |-> "Portfolio Website",
     description |-> "static", technologies |-> <<"HTML5", "CSS3", "JavaScript", "GitHub Pages">>,
     demoUrl |-> "https://purplehoge.github.io/purplehoge-portfolio/",
     featured |-> TRUE, stars |-> 0]
getFallbackRepositoriesStatic == <<FallbackPortfolio>>

getFallbackRepositories == <<>>

\* ------------------------------------------------------------------------
\* State
\* ------------------------------------------------------------------------
VARIABLES
    now,              \* Date.now()
    ticks,            \* number of clock advances so far (bounds the run)
    cache,            \* GitHubApiClient.cache.get('user-repositories')
    lastRequestTime,  \* GitHubApiClient.lastRequestTime
    isLoading,        \* GitHubApiClient.isLoading
    activeLoaders,    \* loadingManager.activeLoaders
    calls,            \* the getRepositories() invocations, by call number
    requests,         \* per call, the times at which it called fetch()
    completions,      \* the latest setCachedData call: who, when, and whether stale
    repoIn,           \* the repository handed to getDemoUrl
    demoOut,          \* what getDemoUrl returned for it
    reposIn,          \* the raw list handed to processRepositories
    processedOut,     \* whether processRepositories was called, and its result
    document,         \* the elements present in the page
    queryOut,         \* the last safeQuerySelector / safeQuerySelectorAll call
    elements,         \* PortfolioApp.elements
    skillsData,       \* the skillsData array of main.js
    skillsHtml,       \* innerHTML of #skillsContent
    projectsData,     \* the projectsData array of main.js
    projectsHtml,     \* innerHTML of #projectsContent
    appPc,            \* where PortfolioApp.initialize() stands
    resizeCalls,      \* calls of the debounced handleResize: time and argument
    resizeRuns,       \* invocations of the function debounce wraps
    debounceTimers,   \* pending setTimeout(later, wait) timers of debounce
    scrollCalls,      \* calls of the throttled handleScroll: time and argument
    scrollRuns,       \* invocations of the function throttle wraps
    inThrottle,       \* the inThrottle flag of throttle
    throttleTimers    \* pending setTimeout(() => inThrottle = false, limit)

apiVars == <<cache, lastRequestTime, isLoading, activeLoaders, calls, requests, completions>>
clockVars == <<now, ticks>>
demoVars == <<repoIn, demoOut>>
processVars == <<reposIn, processedOut>>
domVars == <<document, queryOut>>
pageVars == <<elements, skillsData, skillsHtml, projectsData, projectsHtml, appPc>>
debounceVars == <<resizeCalls, resizeRuns, debounceTimers>>
throttleVars == <<scrollCalls, scrollRuns, inThrottle, throttleTimers>>
eventVars == <<debounceVars, throttleVars>>
nonApiVars == <<demoVars, processVars, domVars, pageVars, eventVars>>
vars == <<clockVars, apiVars, demoVars, processVars, domVars, pageVars, eventVars>>

\* ------------------------------------------------------------------------
\* The clock.  Date.now() at page load is far beyond both delays, so the first
\* request never waits.  A timer runs when it is due: the clock does not move
\* past a pending timer.
\* ------------------------------------------------------------------------
StartTime == CACHE_DURATION + RATE_LIMIT_DELAY

\* ------------------------------------------------------------------------
\* GitHubApiClient (js/github-api.js)
\* ------------------------------------------------------------------------
NoEntry == [present |-> FALSE, data |-> <<>>, timestamp |-> 0]

CallIds == 1..MaxCalls

NewCall ==
    [pc |-> "idle", hit |-> FALSE, seenAge |-> -1, concurrent |-> {},
     wake |-> 0, failed |-> FALSE, stale |-> FALSE, settled |-> "pending",
     value |-> <<>>]

InFlight(c) == calls[c].pc \in {"waiting", "fetching", "parsing"}

\* Raw API response bodies
RepoProfile ==
    [name |-> "purplehoge", fork |-> FALSE, description |-> Null, homepage |-> Null,
     language |-> Null, topics |-> <<>>, stargazers_count |-> 0]
RepoSite ==
    [name |-> "my-website", fork |-> FALSE, description |-> Null, homepage |-> Null,
     language |-> "HTML", topics |-> <<"css">>, stargazers_count |-> 0]
RepoTool ==
    [name |-> "cli-tool", fork |-> FALSE, description |-> "A tool",
     homepage |-> "https://cli-tool.vercel.app", language |-> "Rust",
     topics |-> <<>>, stargazers_count |-> 2]
RepoFork ==
    [name |-> "starred-fork", fork |-> TRUE, description |-> Null, homepage |-> Null,
     language |-> "Python", topics |-> <<>>, stargazers_count |-> 5]

ResponseBodies == {<<RepoProfile, RepoSite>>, <<RepoFork, RepoSite, RepoTool>>}

\* processRepositories(repos) for each body the API can answer with
Processed == [body \in ResponseBodies |-> processRepositories(body)]

\* An entry exactly CACHE_DURATION old counted as expired
IsExpiredAtBoundary(timestamp, t) == t - timestamp >= CACHE_DURATION

\* isExpired in getCachedData
IsExpired(timestamp, t) == t - timestamp > CACHE_DURATION

\* getCachedData(key): the data returned (Null on a miss) and the cache left
getCachedData(entry, t) ==
    IF ~entry.present THEN [data |-> Null, cache |-> entry]
    ELSE IF IsExpired(entry.timestamp, t) THEN [data |-> Null, cache |-> NoEntry]
    ELSE [data |-> entry.data, cache |-> entry]

\* A cache that keeps the entry it already holds
setCachedDataKeepFirst(entry, data, t) ==
    IF entry.present THEN entry ELSE [present |-> TRUE, data |-> data, timestamp |-> t]

\* A cache that stores the fallback list whatever it is given
setCachedDataFallback(entry, data, t) ==
    [present |-> TRUE, data |-> getFallbackRepositories, timestamp |-> t]

\* setCachedData(key, data)
setCachedData(entry, data, t) == [present |-> TRUE, data |-> data, timestamp |-> t]

\* A fetch that is retried once
IssueRequestWithRetry(log, c, t) == [log EXCEPT ![c] = @ \o <<t, t>>]

\* fetch(fullUrl, ...) in fetchUserRepositories: one request goes out
IssueRequest(log, c, t) == [log EXCEPT ![c] = Append(@, t)]

\* LoadingManager.start / stop
LoaderStart(loaders, id) == loaders \cup {id}
LoaderStop(loaders, id) == loaders \ {id}

\* The catch block of getRepositories: the promise resolves with the fallback
CatchError(call) ==
    [call EXCEPT !.pc = "done", !.failed = TRUE, !.stale = FALSE,
                 !.settled = "resolved", !.value = getFallbackRepositories]

\* A finally block that forgets loadingManager.stop
FinallyKeepLoader ==
    /\ isLoading' = FALSE
    /\ activeLoaders' = activeLoaders

\* The finally block of getRepositories
Finally ==
    /\ isLoading' = FALSE
    /\ activeLoaders' = LoaderStop(activeLoaders, "github-repos")

\* getRepositories(), up to its first await: the cache check, and on a miss
\* the synchronous part of fetchUserRepositories / respectRateLimit.
GetRepositories(c) ==
    /\ calls[c].pc = "idle"
    /\ c > 1 => calls[c - 1].pc # "idle"
    /\ LET got == getCachedData(cache, now)
           seen == [calls[c] EXCEPT
                      !.seenAge = IF cache.present THEN now - cache.timestamp ELSE -1,
                      !.concurrent = {d \in CallIds : InFlight(d)}]
           timeSinceLastRequest == now - lastRequestTime
       IN  IF got.data # Null
           THEN /\ calls' = [calls EXCEPT ![c] =
                       [seen EXCEPT !.pc = "done", !.hit = TRUE,
                                    !.settled = "resolved", !.value = got.data]]
                /\ cache' = got.cache
                /\ Finally
                /\ UNCHANGED <<lastRequestTime, requests>>
           ELSE /\ cache' = got.cache
                /\ isLoading' = TRUE
                /\ activeLoaders' = LoaderStart(activeLoaders, "github-repos")
                /\ IF timeSinceLastRequest < RATE_LIMIT_DELAY
                   THEN /\ calls' = [calls EXCEPT ![c] =
                               [seen EXCEPT !.pc = "waiting",
                                  !.wake = now + (RATE_LIMIT_DELAY - timeSinceLastRequest)]]
                        /\ UNCHANGED <<lastRequestTime, requests>>
                   ELSE /\ calls' = [calls EXCEPT ![c] = [seen EXCEPT !.pc = "fetching"]]
                        /\ lastRequestTime' = now
                        /\ requests' = IssueRequest(requests, c, now)
    /\ UNCHANGED <<clockVars, completions, nonApiVars>>

\* respectRateLimit() after its setTimeout, then the fetch() call
RateLimitTimer(c) ==
    /\ calls[c].pc = "waiting"
    /\ now >= calls[c].wake
    /\ lastRequestTime' = now
    /\ requests' = IssueRequest(requests, c, now)
    /\ calls' = [calls EXCEPT ![c] = [@ EXCEPT !.pc = "fetching", !.wake = 0]]
    /\ UNCHANGED <<clockVars, cache, isLoading, activeLoaders, completions, nonApiVars>>

\* await fetch(...) settles: a network error rejects it, a status outside
\* 200-299 makes fetchUserRepositories throw, otherwise response.json() starts.
FetchSettles(c, outcome) ==
    /\ calls[c].pc = "fetching"
    /\ IF outcome = "ok"
       THEN /\ calls' = [calls EXCEPT ![c].pc = "parsing"]
            /\ UNCHANGED <<isLoading, activeLoaders>>
       ELSE /\ calls' = [calls EXCEPT ![c] = CatchError(calls[c])]
            /\ Finally
    /\ UNCHANGED <<clockVars, cache, lastRequestTime, requests, completions, nonApiVars>>

\* await response.json() rejects: the body is not JSON
JsonFails(c) ==
    /\ calls[c].pc = "parsing"
    /\ calls' = [calls EXCEPT ![c] = CatchError(calls[c])]
    /\ Finally
    /\ UNCHANGED <<clockVars, cache, lastRequestTime, requests, completions, nonApiVars>>

\* await response.json() resolves: processRepositories, setCachedData, return
JsonResolves(c, body) ==
    /\ calls[c].pc = "parsing"
    /\ LET processedRepos == Processed[body]
       IN  /\ cache' = setCachedData(cache, processedRepos, now)
           /\ calls' = [calls EXCEPT ![c] =
                  [@ EXCEPT !.pc = "done", !.stale = FALSE,
                            !.settled = "resolved", !.value = processedRepos]]
    /\ completions' = <<[call |-> c, at |-> now, stale |-> calls[c].stale]>>
    /\ Finally
    /\ UNCHANGED <<clockVars, lastRequestTime, requests, nonApiVars>>

\* clearCache().  Nothing is cancelled: the calls in flight go on; until they
\* settle they are marked (stale) as started before this clear.  A clear that would leave the
\* whole state as it is, is a stuttering step.
ClearCache ==
    /\ cache.present \/ \E c \in CallIds : InFlight(c) /\ ~calls[c].stale
    /\ cache' = NoEntry
    /\ calls' = [c \in CallIds |->
                    IF InFlight(c) THEN [calls[c] EXCEPT !.stale = TRUE] ELSE calls[c]]
    /\ UNCHANGED <<clockVars, lastRequestTime, isLoading, activeLoaders,
                   requests, completions, nonApiVars>>

\* Timers of respectRateLimit that are pending, and the earliest one
ApiTimers == {calls[c].wake : c \in {d \in CallIds : calls[d].pc = "waiting"}}

MinOf(S) == CHOOSE x \in S : \A y \in S : x <= y

TickSteps == {1, CACHE_DURATION}

ApiTick(d) ==
    /\ ticks < MaxTicks
    /\ \A due \in ApiTimers : now + d <= due
    /\ now' = now + d
    /\ ticks' = ticks + 1
    /\ UNCHANGED <<apiVars, nonApiVars>>

ApiTickToTimer ==
    /\ ticks < MaxTicks
    /\ ApiTimers # {}
    /\ MinOf(ApiTimers) > now
    /\ now' = MinOf(ApiTimers)
    /\ ticks' = ticks + 1
    /\ UNCHANGED <<apiVars, nonApiVars>>


\* ------------------------------------------------------------------------
\* Properties of the GitHub API client
\* ------------------------------------------------------------------------
PastRateLimit(c) == calls[c].pc \in {"fetching", "parsing"} \/ (calls[c].pc = "done" /\ ~calls[c].hit)
Succeeded(c) == calls[c].pc = "done" /\ ~calls[c].hit /\ ~calls[c].failed

\* C1: a getRepositories() call is served from the cache, with no HTTP
\* request, exactly when the cache holds an entry at most CACHE_DURATION
\* (3,600,000 ms) old; an older entry is deleted and the call goes on to
\* issue a request.
C1_Step(c) ==
    (calls[c].pc = "idle" /\ calls'[c].pc # "idle") =>
        IF cache.present /\ now - cache.timestamp <= 3600000
        THEN /\ calls'[c].pc = "done"
             /\ calls'[c].hit
             /\ calls'[c].value = cache.data
             /\ requests' = requests
             /\ cache' = cache
        ELSE /\ ~cache'.present
             /\ ~calls'[c].hit
             /\ calls'[c].pc \in {"waiting", "fetching"}
C1_CacheWindow ==
    /\ [][\A c \in CallIds : C1_Step(c)]_vars
    /\ [](\A c \in CallIds : PastRateLimit(c) => Len(requests[c]) >= 1)

C1_Witness ==
    \E c, d \in CallIds :
        /\ calls[c].hit /\ calls[c].seenAge = 3600000 /\ Len(requests[c]) = 0
        /\ ~calls[d].hit /\ calls[d].seenAge = 3600001 /\ Len(requests[d]) = 1

\* C2: getRepositories() never rejects; when the fetch rejects, the status is
\* not OK or the body cannot be parsed, it resolves to the fallback list,
\* which is empty.
C2_NeverRejects ==
    \A c \in CallIds :
        /\ calls[c].settled \in {"pending", "resolved"}
        /\ calls[c].pc = "done" <=> calls[c].settled = "resolved"
        /\ calls[c].failed => (calls[c].settled = "resolved" /\ calls[c].value = <<>>)

C2_Witness ==
    \E c \in CallIds :
        /\ calls[c].failed /\ calls[c].settled = "resolved" /\ calls[c].value = <<>>
        /\ Len(requests[c]) = 1

\* C3: a getRepositories() call issues at most one HTTP request: exactly one
\* on a cache miss, whether the request succeeds or fails, none on a hit.
C3_OneRequestPerCall ==
    \A c \in CallIds :
        /\ Len(requests[c]) <= 1
        /\ calls[c].hit => Len(requests[c]) = 0
        /\ PastRateLimit(c) => Len(requests[c]) = 1
        /\ calls[c].pc \in {"idle", "waiting"} => Len(requests[c]) = 0

C3_Witness ==
    \E c, d, e \in CallIds :
        /\ calls[c].failed /\ Len(requests[c]) = 1
        /\ Succeeded(d) /\ Len(requests[d]) = 1
        /\ calls[e].hit /\ Len(requests[e]) = 0

\* C4: any two HTTP requests of the client start at least RATE_LIMIT_DELAY
\* (1000 ms) apart, also when getRepositories() calls overlap.
RequestTimes(c) == {<<c, i, requests[c][i]>> : i \in 1..Len(requests[c])}
AllRequests == UNION {RequestTimes(c) : c \in CallIds}
Apart(a, b) == IF a >= b THEN a - b ELSE b - a

C4_RequestsSpaced ==
    \A r, q \in AllRequests : r # q => Apart(r[3], q[3]) >= 1000

\* C10: overlapping getRepositories() calls that find no valid entry are not
\* coalesced, each issues its own request; the cache holds the list and the
\* timestamp of the call that completed last.
C10_NoCoalescing ==
    /\ \A c \in CallIds : \A d \in calls[c].concurrent :
          (~calls[c].hit /\ PastRateLimit(c) /\ PastRateLimit(d)) =>
              (Len(requests[c]) = 1 /\ Len(requests[d]) = 1)
    /\ (completions # <<>> /\ cache.present) =>
          /\ cache.data = calls[completions[1].call].value
          /\ cache.timestamp = completions[1].at

C10_Witness ==
    \E c, d \in CallIds :
        /\ d \in calls[c].concurrent
        /\ Succeeded(c) /\ Succeeded(d)
        /\ calls[c].value # calls[d].value
        /\ completions # <<>> /\ completions[1].call = d
        /\ cache.present /\ cache.data = calls[d].value /\ cache.data # calls[c].value
        /\ cache.timestamp > requests[c][1]

\* C11: the cache holds only lists that processRepositories made from a
\* successful response.  The step in which a call fails leaves the cache as it
\* is, so a call that follows a failed call (one that ran with no other call
\* in flight) finds no entry and issues a request of its own; a call served
\* from the cache never gets the fallback list of a failed call.
ProcessedLists == {Processed[body] : body \in ResponseBodies}
Fails(c) == ~calls[c].failed /\ calls'[c].failed

isLoadingData == isLoading

C12_LoadingWhileInFlight ==
    (\E c \in CallIds : InFlight(c)) => isLoadingData

\* C13: when a call settles and no other call is in flight, isLoading is
\* false and 'github-repos' is not an active loader, whether the call was
\* served from the cache, fetched successfully or failed.
Settles(c) == calls[c].pc # "done" /\ calls'[c].pc = "done"
NoneInFlight == \A c \in CallIds : ~InFlight(c)

C13_IdleAfterSettling ==
    /\ [][\A c \in CallIds :
            (Settles(c) /\ NoneInFlight') =>
                (~isLoading' /\ "github-repos" \notin activeLoaders')]_vars
    /\ [](NoneInFlight => (~isLoadingData /\ "github-repos" \notin activeLoaders))

C13_Witness ==
    \E c, d, e \in CallIds :
        /\ calls[c].hit /\ calls[d].failed /\ Succeeded(e)
        /\ NoneInFlight
        /\ ~isLoadingData /\ "github-repos" \notin activeLoaders

\* C14: after clearCache() the cache stays empty until a call started after
\* the clear completes a successful fetch: the entry the cache holds was never
\* written by a call that was already in flight when clearCache() ran.
C14_ClearStaysEmpty ==
    (cache.present /\ completions # <<>>) => ~completions[1].stale

\* ------------------------------------------------------------------------
\* processRepositories applied to one raw response
\* ------------------------------------------------------------------------
RawRepo(name, fork, language, topics, stars) ==
    [name |-> name, fork |-> fork, description |-> Null, homepage |-> Null,
     language |-> language, topics |-> topics, stargazers_count |-> stars]

\* Repositories the API may list: excluded names (one of them starred), a
\* name that differs from an excluded one in case only, forks, and
\* repositories featured by stars, by topic, by name, or not at all.
ProcessPool ==
    {RawRepo("purplehoge", FALSE, Null, <<>>, 3),
     RawRepo("README", FALSE, Null, <<>>, 0),
     RawRepo("readme", FALSE, "HTML", <<>>, 0),
     RawRepo("forked-lib", TRUE, "Python", <<>>, 5),
     RawRepo("My-Portfolio", FALSE, "JavaScript", <<"javascript", "react">>, 0),
     RawRepo("notes", FALSE, Null, <<"featured">>, 0),
     RawRepo("cli-tool", FALSE, "Rust", <<"cli">>, 2),
     RawRepo("game", FALSE, "TypeScript", <<"html", "css">>, 7),
     RawRepo("scratch", FALSE, Null, <<>>, 0)}

RepoLists == UNION {[1..n -> ProcessPool] : n \in 0..MaxRepos}

NotProcessed == [called |-> FALSE, value |-> <<>>]

CallProcessRepositories ==
    /\ ~processedOut.called
    /\ processedOut' = [called |-> TRUE, value |-> processRepositories(reposIn)]
    /\ UNCHANGED <<reposIn, clockVars, apiVars, demoVars, domVars, pageVars, eventVars>>

\* C15: processRepositories returns exactly one summary for each input
\* repository that is not a fork and whose name is not 'purplehoge' or
\* 'README', and no summary for any other input repository.
Count(seq, x) == Cardinality({i \in 1..Len(seq) : seq[i] = x})
SummariesOf(repo) ==
    {i \in 1..Len(processedOut.value) :
        /\ processedOut.value[i].id = "github-" \o repo.name
        /\ processedOut.value[i].title = repo.name}
Wanted(repo) == ~repo.fork /\ repo.name \notin {"purplehoge", "README"}
WantedInputs == {i \in 1..Len(reposIn) : Wanted(reposIn[i])}

C15_OneSummaryPerRepo ==
    processedOut.called =>
        /\ Len(processedOut.value) = Cardinality(WantedInputs)
        /\ \A repo \in ProcessPool :
              Cardinality(SummariesOf(repo)) =
                  IF Wanted(repo) THEN Count(reposIn, repo) ELSE 0

C15_Witness ==
    /\ processedOut.called
    /\ \E i, j, k \in 1..Len(reposIn) :
          /\ reposIn[i].fork
          /\ reposIn[j].name \in {"purplehoge", "README"}
          /\ Wanted(reposIn[k])
    /\ Len(processedOut.value) = 1

\* C16: in the list processRepositories returns, every featured summary
\* (stars > 0, or topic 'featured', or a name containing 'portfolio' in any
\* letter case) precedes every non-featured one, and among summaries with
\* the same featured flag the star counts do not increase.
InputOf(summary) == CHOOSE repo \in ProcessPool : repo.name = summary.title
FeaturedAsStated(repo) ==
    \/ repo.stargazers_count > 0
    \/ \E i \in 1..Len(repo.topics) : repo.topics[i] = "featured"
    \/ includes(toLowerCase(repo.name), "portfolio")

C16_FeaturedFirst ==
    processedOut.called =>
        LET out == processedOut.value
        IN  /\ \A i \in 1..Len(out) : out[i].featured <=> FeaturedAsStated(InputOf(out[i]))
            /\ \A i, j \in 1..Len(out) :
                  i < j =>
                     /\ out[j].featured => out[i].featured
                     /\ (out[i].featured <=> out[j].featured) => out[i].stars >= out[j].stars

C16_Witness ==
    /\ processedOut.called
    /\ Len(processedOut.value) = 3
    /\ processedOut.value[1].featured /\ processedOut.value[1].stars = 7
    /\ processedOut.value[2].featured /\ processedOut.value[2].stars = 0
    /\ ~processedOut.value[3].featured
    /\ reposIn[1].name = processedOut.value[3].title
    /\ reposIn[3].name = processedOut.value[1].title

\* C17: the technologies list of a summary, which is what extractTechnologies
\* returned for the repository, names no technology twice.
NoDuplicates(seq) == \A i, j \in 1..Len(seq) : seq[i] = seq[j] => i = j

C17_TechnologiesDistinct ==
    \A i \in 1..Len(processedOut.value) :
        NoDuplicates(processedOut.value[i].technologies)

\* ------------------------------------------------------------------------
\* getDemoUrl applied to one repository of the API response
\* ------------------------------------------------------------------------
DemoNames == {"purplehoge.github.io", "my-website", "cli-tool"}

DemoHomepages ==
    {Null, "", "  ", "\t\n", " https://my-app.vercel.app ", "ftp://files.now.sh",
     "https://notvercel.app", "https://demo.netlify.app/", "ftp://demo.netlify.app",
     "https://example.com ", "example.vercel.app", "HTTPS://Site.Pages.Dev",
     "https://evilgithub.io"}

DemoDescriptions == {Null, "Landing page", "A tool"}

DemoTopics == {<<>>, <<"github-pages">>, <<"React">>}

DemoLanguages == {Null, "HTML", "Rust"}

DemoRepos ==
    {[name |-> n, fork |-> FALSE, description |-> d, homepage |-> h,
      language |-> l, topics |-> t, stargazers_count |-> 0] :
        n \in DemoNames, d \in DemoDescriptions, h \in DemoHomepages,
        l \in DemoLanguages, t \in DemoTopics}

\* demoUrl: this.getDemoUrl(repo)
CallGetDemoUrl ==
    /\ demoOut = Pending
    /\ demoOut' = getDemoUrl(repoIn)
    /\ UNCHANGED <<repoIn, processVars, clockVars, apiVars, domVars, pageVars, eventVars>>


\* ------------------------------------------------------------------------
\* Properties of getDemoUrl
\* ------------------------------------------------------------------------
\* The hostname is the domain itself or a dot-separated subdomain of it
OnDomain(hostname, domain) == hostname = domain \/ endsWith(hostname, "." \o domain)

HomepageOf(repo) ==
    IF repo.homepage = Null \/ trim(repo.homepage) = "" THEN Null ELSE trim(repo.homepage)

OnProviderDomain(homepage) ==
    LET urlObj == ParseUrl(homepage)
    IN  /\ homepage # Null
        /\ urlObj.ok
        /\ \/ \E domain \in vercelDomains : OnDomain(urlObj.hostname, domain)
           \/ /\ urlObj.protocol \in {"http:", "https:"}
              /\ \E domain \in deployDomains : OnDomain(urlObj.hostname, domain)

DemoUrlByOrder(repo) ==
    IF OnProviderDomain(HomepageOf(repo)) THEN HomepageOf(repo)
    ELSE IF repo.name = "purplehoge.github.io" THEN "https://purplehoge.github.io/"
    ELSE IF likelyHasGitHubPages(repo)
         THEN "https://purplehoge.github.io/" \o repo.name \o "/"
    ELSE HomepageOf(repo)

\* C5: getDemoUrl returns the first applicable of: the trimmed homepage when
\* it is a URL on a known hosting-provider domain; the GitHub Pages URL when
\* the repository is the user site or likelyHasGitHubPages holds; the trimmed
\* homepage; null.
C5_DemoUrlOrder ==
    demoOut # Pending => demoOut = DemoUrlByOrder(repoIn)

\* C18: getDemoUrl returns null or a non-empty string with no white space at
\* either end.  A homepage that is missing, empty or all white space counts as
\* absent, and null is returned exactly when the homepage is absent, the
\* repository is not the user site and likelyHasGitHubPages is false.
HomepageAbsent(repo) ==
    \/ repo.homepage = Null
    \/ \A i \in 1..Len(repo.homepage) : CharAt(repo.homepage, i) \in {" ", "\t", "\n", "\r"}

Tidy(str) ==
    /\ Len(str) > 0
    /\ CharAt(str, 1) \notin {" ", "\t", "\n", "\r"}
    /\ CharAt(str, Len(str)) \notin {" ", "\t", "\n", "\r"}

C18_DemoUrlTidy ==
    demoOut # Pending =>
        /\ demoOut = Null \/ Tidy(demoOut)
        /\ demoOut = Null <=>
               /\ HomepageAbsent(repoIn)
               /\ repoIn.name # "purplehoge.github.io"
               /\ ~likelyHasGitHubPages(repoIn)

C18_Witness ==
    /\ repoIn.homepage = "\t\n"
    /\ repoIn.name = "cli-tool"
    /\ ~likelyHasGitHubPages(repoIn)
    /\ demoOut = Null

\* C19: step 1 of getDemoUrl accepts a homepage only if its hostname is one
\* of the listed provider domains or a dot-separated subdomain of one.
AcceptedAtStep1(repo) ==
    /\ Truthy(repo.homepage)
    /\ isVercelUrl(trim(repo.homepage)) \/ isValidDeployUrl(trim(repo.homepage))

HostOnListedDomain(url) ==
    LET urlObj == ParseUrl(url)
    IN  /\ urlObj.ok
        /\ \E domain \in vercelDomains \cup deployDomains : OnDomain(urlObj.hostname, domain)

C19_ProviderHostsOnly ==
    (demoOut # Pending /\ AcceptedAtStep1(repoIn)) =>
        /\ demoOut = trim(repoIn.homepage)
        /\ HostOnListedDomain(demoOut)

\* ------------------------------------------------------------------------
\* The document and the selector helpers (utils)
\* ------------------------------------------------------------------------
\* Elements a page may hold, in document order, with the selectors of the
\* site that match each.
DocumentOrder ==
    <<"header", "navLink1", "navLink2", "skillsContent", "projectsContent", "about">>

PageElements == {DocumentOrder[i] : i \in 1..Len(DocumentOrder)}

Pages == SUBSET PageElements

ElementMatches(element, selector) ==
    CASE selector = ".header" -> element = "header"
      [] selector = ".header__nav-link" -> element \in {"navLink1", "navLink2"}
      [] selector = "#skillsContent" -> element = "skillsContent"
      [] selector = "#projectsContent" -> element = "projectsContent"
      [] selector = "section[id]" -> element \in {"skillsContent", "about"}
      [] OTHER -> FALSE

ValidSelectors ==
    {".header", ".header__nav-link", "#skillsContent", "#projectsContent", "section[id]"}

\* Strings the selector parser rejects; the empty string is one of them.
InvalidSelectors == {"", "#", "div >", "[id"}

Selectors == ValidSelectors \cup InvalidSelectors

\* The DOMException (SyntaxError) querySelector(All) throws
SyntaxError == "<SyntaxError>"

RECURSIVE MatchesInOrder(_, _, _)
MatchesInOrder(doc, selector, i) ==
    IF i > Len(DocumentOrder) THEN <<>>
    ELSE IF DocumentOrder[i] \in doc /\ ElementMatches(DocumentOrder[i], selector)
         THEN <<DocumentOrder[i]>> \o MatchesInOrder(doc, selector, i + 1)
         ELSE MatchesInOrder(doc, selector, i + 1)

\* document.querySelectorAll(selector): the NodeList, or SyntaxError thrown
querySelectorAll(doc, selector) ==
    IF selector \notin ValidSelectors THEN SyntaxError
    ELSE MatchesInOrder(doc, selector, 1)

\* document.querySelector(selector): the first match or null, or SyntaxError
querySelector(doc, selector) ==
    LET all == querySelectorAll(doc, selector)
    IN  IF all = SyntaxError THEN SyntaxError
        ELSE IF Len(all) = 0 THEN Null ELSE all[1]

\* safeQuerySelector: the catch returns null
safeQuerySelector(doc, selector) ==
    LET found == querySelector(doc, selector)
    IN  IF found = SyntaxError THEN Null ELSE found

\* safeQuerySelectorAll: the catch evaluates document.querySelectorAll('')
safeQuerySelectorAll(doc, selector) ==
    LET found == querySelectorAll(doc, selector)
    IN  IF found = SyntaxError THEN querySelectorAll(doc, "") ELSE found

NoQuery == [fn |-> "none", selector |-> "", result |-> Pending]

SafeQuerySelector(selector) ==
    /\ queryOut' = [fn |-> "safeQuerySelector", selector |-> selector,
                    result |-> safeQuerySelector(document, selector)]
    /\ UNCHANGED <<document, clockVars, apiVars, demoVars, processVars, pageVars, eventVars>>

SafeQuerySelectorAll(selector) ==
    /\ queryOut' = [fn |-> "safeQuerySelectorAll", selector |-> selector,
                    result |-> safeQuerySelectorAll(document, selector)]
    /\ UNCHANGED <<document, clockVars, apiVars, demoVars, processVars, pageVars, eventVars>>

\* PortfolioApp.elements before cacheElements() has run
NoElements == [skillsContent |-> Null, projectsContent |-> Null, navLinks |-> <<>>]

\* ------------------------------------------------------------------------
\* Properties of the selector helpers
\* ------------------------------------------------------------------------
\* C6: safeQuerySelectorAll never throws: it returns a list for every
\* selector, the empty list for an invalid one; safeQuerySelector returns
\* null instead of throwing.
C6_SafeSelectors ==
    /\ queryOut.fn = "safeQuerySelectorAll" =>
          /\ queryOut.result # SyntaxError
          /\ queryOut.selector \in InvalidSelectors => queryOut.result = <<>>
    /\ queryOut.fn = "safeQuerySelector" =>
          /\ queryOut.result # SyntaxError
          /\ queryOut.selector \in InvalidSelectors => queryOut.result = Null

\* The part of C6 about safeQuerySelector alone
SafeQuerySelectorNeverThrows ==
    queryOut.fn = "safeQuerySelector" =>
        /\ queryOut.result # SyntaxError
        /\ queryOut.selector \in InvalidSelectors => queryOut.result = Null


\* ------------------------------------------------------------------------
\* PortfolioApp: cacheElements and renderSkills (js/main.js)
\* The literals of the source that are not ASCII (the messages, the level
\* texts, the emoji icons) are written as ASCII stand-ins; the markup is the
\* template's, without the white space between the tags.
\* ------------------------------------------------------------------------
NO_SKILLS == "(no skills)"
ERROR_MESSAGE == "(error)"

RECURSIVE escapeHtml(_)
\* div.textContent = str; return div.innerHTML
escapeHtml(str) ==
    IF Len(str) = 0 THEN ""
    ELSE LET ch == CharAt(str, 1)
             out == CASE ch = "&" -> "&amp;"
                      [] ch = "<" -> "&lt;"
                      [] ch = ">" -> "&gt;"
                      [] OTHER -> ch
         IN  out \o escapeHtml(SubSeq(str, 2, Len(str)))

getLevelText(level) ==
    CASE level = "beginner" -> "(basic)"
      [] level = "intermediate" -> "(middle)"
      [] level = "advanced" -> "(upper)"
      [] OTHER -> level

\* The template of one skill card
SkillCardHtml(skill) ==
    "<div class=\"skill-card skill-card--" \o escapeHtml(skill.level)
        \o "\" data-skill=\"" \o escapeHtml(skill.name) \o "\">"
    \o "<div class=\"skill-card__icon\">" \o skill.icon \o "</div>"
    \o "<div class=\"skill-card__content\">"
    \o "<h4 class=\"skill-card__name\">" \o escapeHtml(skill.name) \o "</h4>"
    \o "<p class=\"skill-card__description\">" \o escapeHtml(skill.description) \o "</p>"
    \o "<span class=\"skill-card__level skill-card__level--" \o escapeHtml(skill.level) \o "\">"
    \o getLevelText(skill.level) \o "</span>"
    \o "</div></div>"

RECURSIVE JoinCards(_)
\* category.skills.map(...).join('')
JoinCards(skills) ==
    IF Len(skills) = 0 THEN ""
    ELSE SkillCardHtml(skills[1]) \o JoinCards(Tail(skills))

\* The template of one category block
CategoryHtml(category) ==
    "<div class=\"skills__category\" data-category=\"" \o escapeHtml(category.category) \o "\">"
    \o "<h3 class=\"skills__category-title\">" \o escapeHtml(category.category) \o "</h3>"
    \o "<div class=\"skills__list\">" \o JoinCards(category.skills) \o "</div>"
    \o "</div>"

\* An html that keeps the last category's block only: html = instead of html +=
AppendCategoryOverwriting(html, category) == CategoryHtml(category)

\* html += `...` in the forEach of renderSkills
AppendCategory(html, category) == html \o CategoryHtml(category)

RECURSIVE SkillsHtml(_)
\* skillsData.forEach(category => { html += ... })
SkillsHtml(data) ==
    IF Len(data) = 0 THEN ""
    ELSE AppendCategory(SkillsHtml(SubSeq(data, 1, Len(data) - 1)), data[Len(data)])

\* renderSkills(): the innerHTML of the container afterwards.  A category
\* without a skills array makes the map throw, and the catch writes the error
\* message.
renderSkills(container, data, current) ==
    IF container = Null THEN current
    ELSE IF Len(data) = 0 THEN "<p class=\"text-center\">" \o NO_SKILLS \o "</p>"
    ELSE IF \E i \in 1..Len(data) : data[i].skills = Null
         THEN "<p class=\"text-center\">" \o ERROR_MESSAGE \o "</p>"
    ELSE SkillsHtml(data)

\* The skills and categories the data is drawn from
SkillHtml5 ==
    [name |-> "HTML5", level |-> "advanced", icon |-> "(globe)", description |-> "markup"]
SkillJavaScript ==
    [name |-> "JavaScript", level |-> "intermediate", icon |-> "(bolt)", description |-> "ES6+"]
SkillNode ==
    [name |-> "Node.js", level |-> "beginner", icon |-> "(green)", description |-> "Express.js"]

CategoryPool ==
    {[category |-> "Frontend", skills |-> <<SkillHtml5, SkillJavaScript>>],
     [category |-> "Backend & Tools", skills |-> <<SkillNode>>],
     [category |-> "Design", skills |-> <<>>]}

SkillsDataChoices ==
    UNION {[1..n -> CategoryPool] : n \in 0..MaxCategories}

\* initialize(): cacheElements()
CacheElements ==
    /\ appPc = "constructed"
    /\ appPc' = "cached"
    /\ elements' = [skillsContent |-> safeQuerySelector(document, "#skillsContent"),
                    projectsContent |-> safeQuerySelector(document, "#projectsContent"),
                    navLinks |-> safeQuerySelectorAll(document, ".header__nav-link")]
    /\ UNCHANGED <<skillsData, skillsHtml, projectsData, projectsHtml, domVars, clockVars,
                   apiVars, demoVars, processVars, eventVars>>

\* initialize(): loadData() calling renderSkills()
RenderSkills ==
    /\ appPc = "cached"
    /\ appPc' = "loaded"
    /\ skillsHtml' = renderSkills(elements.skillsContent, skillsData, skillsHtml)
    /\ UNCHANGED <<elements, skillsData, projectsData, projectsHtml, domVars, clockVars,
                   apiVars, demoVars, processVars, eventVars>>

NO_PROJECTS == "(no projects)"

RECURSIVE JoinTech(_)
\* project.technologies.map(...).join('')
JoinTech(technologies) ==
    IF Len(technologies) = 0 THEN ""
    ELSE "<span class=\"project-card__tech\">" \o escapeHtml(technologies[1]) \o "</span>"
             \o JoinTech(Tail(technologies))

\* The template of one project card
ProjectCardHtml(project) ==
    "<article class=\"project-card\" data-project-id=\"" \o escapeHtml(project.id) \o "\">"
    \o "<div class=\"project-card__image\">"
    \o (IF Truthy(project.image)
        THEN "<img src=\"" \o escapeHtml(project.image) \o "\" alt=\""
                 \o escapeHtml(project.title) \o "\" loading=\"lazy\">"
        ELSE "<div class=\"project-card__placeholder\">(folder)</div>")
    \o (IF project.featured THEN "<div class=\"project-card__badge\">Featured</div>" ELSE "")
    \o "</div>"
    \o "<div class=\"project-card__content\">"
    \o "<h3 class=\"project-card__title\">" \o escapeHtml(project.title) \o "</h3>"
    \o "<p class=\"project-card__description\">" \o escapeHtml(project.description) \o "</p>"
    \o "<div class=\"project-card__technologies\">"
    \o JoinTech(project.technologies)
    \o "</div>"
    \o "<div class=\"project-card__actions\">"
    \o (IF Truthy(project.demoUrl)
        THEN "<a href=\"" \o escapeHtml(project.demoUrl)
                 \o "\" class=\"project-card__link project-card__link--primary\""
                 \o " target=\"_blank\" rel=\"noopener noreferrer\">Demo</a>"
        ELSE "<span class=\"project-card__link project-card__link--disabled\">(no demo)</span>")
    \o (IF Truthy(project.sourceUrl)
        THEN "<a href=\"" \o escapeHtml(project.sourceUrl)
                 \o "\" class=\"project-card__link project-card__link--secondary\""
                 \o " target=\"_blank\" rel=\"noopener noreferrer\">Code</a>"
        ELSE "<span class=\"project-card__link project-card__link--disabled\">(no code)</span>")
    \o "</div></div></article>"

RECURSIVE JoinProjectCards(_)
\* sortedProjects.map(...).join('')
JoinProjectCards(projects) ==
    IF Len(projects) = 0 THEN ""
    ELSE ProjectCardHtml(projects[1]) \o JoinProjectCards(Tail(projects))

\* A comparator that treats all projects alike
CompareProjectsAlike(a, b) == 0

\* The comparator of the sort in renderProjects
CompareProjects(a, b) ==
    IF a.featured /\ ~b.featured THEN -1
    ELSE IF ~a.featured /\ b.featured THEN 1
    ELSE 0

\* Array.prototype.sort with that comparator; the sort is stable
RECURSIVE InsertProject(_, _)
InsertProject(sorted, x) ==
    IF Len(sorted) = 0 THEN <<x>>
    ELSE IF CompareProjects(x, sorted[1]) < 0 THEN <<x>> \o sorted
    ELSE <<sorted[1]>> \o InsertProject(Tail(sorted), x)

RECURSIVE SortProjects(_)
SortProjects(list) ==
    IF Len(list) = 0 THEN <<>>
    ELSE InsertProject(SortProjects(SubSeq(list, 1, Len(list) - 1)), list[Len(list)])

\* renderProjects(): the innerHTML of the container and the projectsData
\* array afterwards.  The sort works on the copy [...projectsData].  A project
\* without a technologies array makes the map throw, and the catch writes the
\* error message.
renderProjects(container, data, current) ==
    IF container = Null THEN [html |-> current, data |-> data]
    ELSE IF Len(data) = 0
         THEN [html |-> "<p class=\"text-center\">" \o NO_PROJECTS \o "</p>", data |-> data]
    ELSE LET copy == data
             sortedProjects == SortProjects(copy)
         IN  IF \E i \in 1..Len(data) : data[i].technologies = Null
             THEN [html |-> "<p class=\"text-center\">" \o ERROR_MESSAGE \o "</p>",
                   data |-> data]
             ELSE [html |-> JoinProjectCards(sortedProjects), data |-> data]

\* The projects the data is drawn from: the first is the featured entry of
\* main.js, the second one of its two plain entries.
ProjectPortfolio ==
    [id |-> "portfolio-website", title |-> "Portfolio", description |-> "HTML & CSS",
     technologies |-> <<"HTML5", "CSS3">>, image |-> Null, demoUrl |-> Null,
     sourceUrl |-> Null, featured |-> TRUE]
ProjectSample ==
    [id |-> "sample-project-1", title |-> "Web app", description |-> "a <sample>",
     technologies |-> <<"React">>, image |-> Null, demoUrl |-> Null,
     sourceUrl |-> Null, featured |-> FALSE]
ProjectMobile ==
    [id |-> "sample-project-2", title |-> "Mobile", description |-> "mobile first",
     technologies |-> <<>>, image |-> "images/m.png", demoUrl |-> "https://m.example",
     sourceUrl |-> "https://github.com/purplehoge/m", featured |-> FALSE]
ProjectGame ==
    [id |-> "game", title |-> "Game", description |-> "a game",
     technologies |-> <<"JavaScript">>, image |-> Null, demoUrl |-> "https://g.example",
     sourceUrl |-> Null, featured |-> TRUE]

ProjectPool == {ProjectPortfolio, ProjectSample, ProjectMobile, ProjectGame}

ProjectsDataChoices == UNION {[1..n -> ProjectPool] : n \in 0..MaxProjects}

\* initialize(): loadData() calling renderProjects()
RenderProjects ==
    /\ appPc = "loaded"
    /\ appPc' = "rendered"
    /\ LET after == renderProjects(elements.projectsContent, projectsData, projectsHtml)
       IN  /\ projectsHtml' = after.html
           /\ projectsData' = after.data
    /\ UNCHANGED <<elements, skillsData, skillsHtml, domVars, clockVars,
                   apiVars, demoVars, processVars, eventVars>>

\* ------------------------------------------------------------------------
\* Properties of renderSkills
\* ------------------------------------------------------------------------
\* The positions of s at which k starts, ascending
Occurrences(s, k) ==
    LET at == {i \in 1..(Len(s) - Len(k) + 1) : SubSeq(s, i, i + Len(k) - 1) = k}
    IN  [n \in 1..Cardinality(at) |->
            CHOOSE x \in at : Cardinality({y \in at : y < x}) = n - 1]

\* The value of the first attribute attr="..." of s
AttrValue(s, attr) ==
    LET open == attr \o "=\""
        at == Occurrences(s, open)
        rest == SubSeq(s, at[1] + Len(open), Len(s))
    IN  IF Len(at) = 0 THEN Null ELSE SubSeq(rest, 1, FirstOf(rest, {"\""}) - 1)

\* The pieces of s that start at the given positions
Pieces(s, at) ==
    [i \in 1..Len(at) |->
        SubSeq(s, at[i], IF i < Len(at) THEN at[i + 1] - 1 ELSE Len(s))]

CategoryBlocks(html) == Pieces(html, Occurrences(html, "<div class=\"skills__category\""))
SkillCards(block) == Pieces(block, Occurrences(block, "<div class=\"skill-card "))

\* C7: renderSkills writes one category block per entry of skillsData, in
\* order, each with one skill card per skill; the NO_SKILLS message when
\* skillsData is empty; nothing when the container is missing.
C7_RenderSkills ==
    appPc \in {"loaded", "rendered"} =>
        IF "skillsContent" \notin document THEN skillsHtml = ""
        ELSE IF Len(skillsData) = 0
             THEN skillsHtml = "<p class=\"text-center\">(no skills)</p>"
        ELSE LET blocks == CategoryBlocks(skillsHtml)
             IN  /\ Len(blocks) = Len(skillsData)
                 /\ \A i \in 1..Len(blocks) :
                       LET cards == SkillCards(blocks[i])
                           skills == skillsData[i].skills
                       IN  /\ AttrValue(blocks[i], "data-category")
                                = escapeHtml(skillsData[i].category)
                           /\ Len(cards) = Len(skills)
                           /\ \A j \in 1..Len(cards) :
                                 AttrValue(cards[j], "data-skill") = escapeHtml(skills[j].name)

C7_Witness ==
    /\ appPc = "loaded"
    /\ "skillsContent" \in document
    /\ Len(skillsData) = 2
    /\ skillsData[1].category = "Backend & Tools"
    /\ skillsData[2].category = "Frontend"
    /\ Len(CategoryBlocks(skillsHtml)) = 2
    /\ Len(SkillCards(CategoryBlocks(skillsHtml)[2])) = 2

\* ------------------------------------------------------------------------
\* Properties of renderProjects
\* ------------------------------------------------------------------------
ProjectCards(html) == Pieces(html, Occurrences(html, "<article class=\"project-card\""))
CardIds(html) ==
    [i \in 1..Len(ProjectCards(html)) |-> AttrValue(ProjectCards(html)[i], "data-project-id")]
HasBadge(card) == Len(Occurrences(card, "<div class=\"project-card__badge\">")) > 0

\* The ids of the entries of data whose featured flag is flag, in data's order
RECURSIVE IdsWithFlag(_, _)
IdsWithFlag(data, flag) ==
    IF Len(data) = 0 THEN <<>>
    ELSE (IF data[1].featured = flag THEN <<escapeHtml(data[1].id)>> ELSE <<>>)
             \o IdsWithFlag(Tail(data), flag)

\* C20: renderProjects writes one project card per entry of projectsData,
\* the featured entries first and each group in its original order, and it
\* leaves the projectsData array as it was.
C20_RenderProjects ==
    /\ [][projectsData' = projectsData]_vars
    /\ []((appPc = "rendered" /\ "projectsContent" \in document /\ Len(projectsData) > 0) =>
            /\ Len(ProjectCards(projectsHtml)) = Len(projectsData)
            /\ CardIds(projectsHtml) =
                  IdsWithFlag(projectsData, TRUE) \o IdsWithFlag(projectsData, FALSE)
            /\ \A i \in 1..Len(ProjectCards(projectsHtml)) :
                  HasBadge(ProjectCards(projectsHtml)[i])
                      <=> i <= Len(IdsWithFlag(projectsData, TRUE)))

C20_Witness ==
    /\ appPc = "rendered"
    /\ "projectsContent" \in document
    /\ projectsData = <<ProjectSample, ProjectGame, ProjectMobile>>
    /\ CardIds(projectsHtml) = <<"game", "sample-project-1", "sample-project-2">>


\* ------------------------------------------------------------------------
\* debounce and throttle (utils), as setupEventListeners uses them: the
\* resize handler debounced with wait 250, the scroll handler throttled with
\* limit 16.  The argument of a call is its number.
\* ------------------------------------------------------------------------
DEBOUNCE_WAIT == 250
THROTTLE_LIMIT == 16

\* A debounced call that leaves the pending timer in place
DebounceCallNoClear(timers, args, t) ==
    timers \cup {[due |-> t + DEBOUNCE_WAIT, args |-> args]}

\* executedFunction(...args): clearTimeout(timeout); timeout = setTimeout(later, wait)
DebounceCall(timers, args, t) ==
    {[due |-> t + DEBOUNCE_WAIT, args |-> args]}

\* The window fires resize: the debounced handler is called
Resize ==
    /\ Len(resizeCalls) < MaxEvents
    /\ LET args == Len(resizeCalls) + 1
       IN  /\ resizeCalls' = Append(resizeCalls, [at |-> now, args |-> args])
           /\ debounceTimers' = DebounceCall(debounceTimers, args, now)
    /\ UNCHANGED <<resizeRuns, throttleVars, clockVars, apiVars, demoVars, processVars, domVars, pageVars>>

\* later(): clearTimeout(timeout); func(...args)
DebounceLater(timer) ==
    /\ timer \in debounceTimers
    /\ now >= timer.due
    /\ debounceTimers' = debounceTimers \ {timer}
    /\ resizeRuns' = Append(resizeRuns,
            [at |-> now, args |-> timer.args, calls |-> Len(resizeCalls)])
    /\ UNCHANGED <<resizeCalls, throttleVars, clockVars, apiVars, demoVars, processVars, domVars, pageVars>>

\* A throttle whose timer is set without the limit
ThrottleTimerNoDelay(t) == t

\* setTimeout(() => inThrottle = false, limit): when the timer is due
ThrottleTimer(t) == t + THROTTLE_LIMIT

\* The window fires scroll: the throttled handler is called
Scroll ==
    /\ Len(scrollCalls) < MaxEvents
    /\ LET args == Len(scrollCalls) + 1
       IN  /\ scrollCalls' = Append(scrollCalls, [at |-> now, args |-> args])
           /\ IF ~inThrottle
              THEN /\ scrollRuns' = Append(scrollRuns, [at |-> now, args |-> args])
                   /\ inThrottle' = TRUE
                   /\ throttleTimers' = throttleTimers \cup {ThrottleTimer(now)}
              ELSE UNCHANGED <<scrollRuns, inThrottle, throttleTimers>>
    /\ UNCHANGED <<debounceVars, clockVars, apiVars, demoVars, processVars, domVars, pageVars>>

\* () => inThrottle = false
ThrottleRelease(due) ==
    /\ due \in throttleTimers
    /\ now >= due
    /\ throttleTimers' = throttleTimers \ {due}
    /\ inThrottle' = FALSE
    /\ UNCHANGED <<scrollCalls, scrollRuns, debounceVars, clockVars, apiVars, demoVars, processVars,
                   domVars, pageVars>>

EventTimers == {t.due : t \in debounceTimers} \cup throttleTimers

EventTickSteps == {1, THROTTLE_LIMIT - 1, DEBOUNCE_WAIT - 1}

EventTick(d) ==
    /\ ticks < MaxTicks
    /\ \A due \in EventTimers : now + d <= due
    /\ now' = now + d
    /\ ticks' = ticks + 1
    /\ UNCHANGED <<eventVars, apiVars, demoVars, processVars, domVars, pageVars>>

EventTickToTimer ==
    /\ ticks < MaxTicks
    /\ EventTimers # {}
    /\ MinOf(EventTimers) > now
    /\ now' = MinOf(EventTimers)
    /\ ticks' = ticks + 1
    /\ UNCHANGED <<eventVars, apiVars, demoVars, processVars, domVars, pageVars>>

\* ------------------------------------------------------------------------
\* Properties of debounce and throttle
\* ------------------------------------------------------------------------
\* C8: the debounced function is never invoked sooner than wait (250 ms)
\* after the most recent call, and a burst of calls followed by wait ms
\* without a call produces exactly one invocation, with the arguments of the
\* last call of the burst.
C8_Debounce ==
    /\ \A i \in 1..Len(resizeRuns) :
          LET run == resizeRuns[i]
          IN  /\ run.calls \in 1..Len(resizeCalls)
              /\ run.at - resizeCalls[run.calls].at >= 250
              /\ run.args = resizeCalls[run.calls].args
    /\ \A i, j \in 1..Len(resizeRuns) : i # j => resizeRuns[i].calls # resizeRuns[j].calls
    /\ (Len(resizeCalls) > 0 /\ now - resizeCalls[Len(resizeCalls)].at > 250) =>
          \E i \in 1..Len(resizeRuns) : resizeRuns[i].calls = Len(resizeCalls)

C8_Witness ==
    /\ Len(resizeCalls) = 2
    /\ resizeCalls[2].at - resizeCalls[1].at = 249
    /\ Len(resizeRuns) = 1
    /\ resizeRuns[1].args = 2
    /\ resizeRuns[1].at = resizeCalls[2].at + 250

\* C9: the first call of the throttled function invokes it synchronously, two
\* invocations are at least limit (16 ms) apart, and a call less than limit ms
\* after an invocation is discarded: not invoked then and not later.
C9_Throttle ==
    /\ Len(scrollCalls) >= 1 =>
          (Len(scrollRuns) >= 1 /\ scrollRuns[1] = [at |-> scrollCalls[1].at, args |-> 1])
    /\ \A i \in 1..Len(scrollRuns) :
          /\ scrollRuns[i].args \in 1..Len(scrollCalls)
          /\ scrollRuns[i].at = scrollCalls[scrollRuns[i].args].at
    /\ \A i, j \in 1..Len(scrollRuns) :
          i < j => (scrollRuns[j].at - scrollRuns[i].at >= 16
                    /\ scrollRuns[i].args < scrollRuns[j].args)
    /\ \A k \in 1..Len(scrollCalls) : \A i \in 1..Len(scrollRuns) :
          (scrollRuns[i].args < k /\ scrollCalls[k].at - scrollRuns[i].at < 16) =>
              \A j \in 1..Len(scrollRuns) : scrollRuns[j].args # k

C9_Witness ==
    /\ Len(scrollCalls) = 3
    /\ scrollCalls[2].at = scrollCalls[1].at + 15
    /\ scrollCalls[3].at = scrollCalls[1].at + 16
    /\ Len(scrollRuns) = 2
    /\ scrollRuns[1].args = 1
    /\ scrollRuns[2].args = 3


\* ------------------------------------------------------------------------
\* Specifications.  Each one runs one part of the site and leaves the state of
\* the other parts as constructed.
\* ------------------------------------------------------------------------
ClockIdle == now = StartTime /\ ticks = 0

ApiIdle ==
    /\ cache = NoEntry
    /\ lastRequestTime = 0
    /\ isLoading = FALSE
    /\ activeLoaders = {}
    /\ calls = [c \in CallIds |-> NewCall]
    /\ requests = [c \in CallIds |-> <<>>]
    /\ completions = <<>>

DemoIdle == repoIn = RepoProfile /\ demoOut = Pending

ProcessIdle == reposIn = <<>> /\ processedOut = NotProcessed

DomIdle == document = {} /\ queryOut = NoQuery

PageIdle ==
    /\ elements = NoElements
    /\ skillsData = <<>>
    /\ skillsHtml = ""
    /\ projectsData = <<>>
    /\ projectsHtml = ""
    /\ appPc = "constructed"

EventsIdle ==
    /\ resizeCalls = <<>>
    /\ resizeRuns = <<>>
    /\ debounceTimers = {}
    /\ scrollCalls = <<>>
    /\ scrollRuns = <<>>
    /\ inThrottle = FALSE
    /\ throttleTimers = {}

\* The GitHub API client
Init == ClockIdle /\ ApiIdle /\ DemoIdle /\ ProcessIdle /\ DomIdle /\ PageIdle /\ EventsIdle

Next ==
    \/ \E c \in CallIds : GetRepositories(c)
    \/ \E c \in CallIds : RateLimitTimer(c)
    \/ \E c \in CallIds, outcome \in {"ok", "network", "status"} : FetchSettles(c, outcome)
    \/ \E c \in CallIds : JsonFails(c)
    \/ \E c \in CallIds, body \in ResponseBodies : JsonResolves(c, body)
    \/ ClearCache
    \/ \E d \in TickSteps : ApiTick(d)
    \/ ApiTickToTimer

Spec == Init /\ [][Next]_vars

\* getDemoUrl on every repository of DemoRepos
InitDemo ==
    /\ ClockIdle /\ ApiIdle /\ ProcessIdle /\ DomIdle /\ PageIdle /\ EventsIdle
    /\ repoIn \in DemoRepos
    /\ demoOut = Pending

NextDemo == CallGetDemoUrl

SpecDemo == InitDemo /\ [][NextDemo]_vars

\* processRepositories on every list of RepoLists
InitProcess ==
    /\ ClockIdle /\ ApiIdle /\ DemoIdle /\ DomIdle /\ PageIdle /\ EventsIdle
    /\ reposIn \in RepoLists
    /\ processedOut = NotProcessed

NextProcess == CallProcessRepositories

SpecProcess == InitProcess /\ [][NextProcess]_vars

\* The selector helpers on every page of Pages
InitDom ==
    /\ ClockIdle /\ ApiIdle /\ DemoIdle /\ ProcessIdle /\ PageIdle /\ EventsIdle
    /\ document \in Pages
    /\ queryOut = NoQuery

NextDom ==
    \/ \E selector \in Selectors : SafeQuerySelector(selector)
    \/ \E selector \in Selectors : SafeQuerySelectorAll(selector)

SpecDom == InitDom /\ [][NextDom]_vars

\* PortfolioApp rendering the skills on every page of Pages
InitPage ==
    /\ ClockIdle /\ ApiIdle /\ DemoIdle /\ ProcessIdle /\ EventsIdle
    /\ document \in Pages
    /\ queryOut = NoQuery
    /\ elements = NoElements
    /\ skillsData \in SkillsDataChoices
    /\ skillsHtml = ""
    /\ projectsData = <<ProjectPortfolio, ProjectSample>>
    /\ projectsHtml = ""
    /\ appPc = "constructed"

NextPage ==
    \/ CacheElements
    \/ RenderSkills
    \/ RenderProjects

SpecPage == InitPage /\ [][NextPage]_vars

\* PortfolioApp rendering the projects, on the pages that differ in the two
\* containers
InitProjects ==
    /\ ClockIdle /\ ApiIdle /\ DemoIdle /\ ProcessIdle /\ EventsIdle
    /\ document \in SUBSET {"skillsContent", "projectsContent"}
    /\ queryOut = NoQuery
    /\ elements = NoElements
    /\ skillsData \in [1..1 -> CategoryPool]
    /\ skillsHtml = ""
    /\ projectsData \in ProjectsDataChoices
    /\ projectsHtml = ""
    /\ appPc = "constructed"

SpecProjects == InitProjects /\ [][NextPage]_vars

\* The resize and scroll handlers of setupEventListeners
InitEvents == ClockIdle /\ ApiIdle /\ DemoIdle /\ ProcessIdle /\ DomIdle /\ PageIdle /\ EventsIdle

NextEvents ==
    \/ Resize
    \/ \E timer \in debounceTimers : DebounceLater(timer)
    \/ Scroll
    \/ \E due \in throttleTimers : ThrottleRelease(due)
    \/ \E d \in EventTickSteps : EventTick(d)
    \/ EventTickToTimer

SpecEvents == InitEvents /\ [][NextEvents]_vars

====
